---- MODULE Spec2Model ----
(***************************************************************************)
(* True-Ledger AI: the audit pipeline of the three front-end variants.     *)
(*   "App"     src/App.tsx              runForensicAudit / extractFrames    *)
(*   "Process" src/unnamed/part_000     handleProcess, with               *)
(*             src/services/videoProcessor.ts extractFramesFromVideo and   *)
(*             analyzeEvidence                                             *)
(*   "Analyze" src/unnamed/part_000     handleAnalyze / extractFrames       *)
(* One browser session runs one variant.  Seek positions are in tenths of *)
(* a second, so that duration * 0.1, * 0.5 and * 0.9 stay integers.        *)
(*   Spec        a session from construction: uploads, audits, events      *)
(*   SpecStaged  audits over staged evidence, with uploads while they run  *)
(*   SpecIntake  ledger intake over well-formed and malformed files        *)
(*   SpecResult  the result panel and the certificate export               *)
(***************************************************************************)
EXTENDS Integers, Naturals, Sequences, FiniteSets, TLC

\* ---------------------------------------------------------------- bounds
MaxAudits == 2
MaxUploads == 2
MaxRows == 16
MaxStats == 52
MaxExports == 2

\* ------------------------------------------------------------- constants
Variants == {"App", "Process", "Analyze"}

\* video.duration as the browser reports it: seconds, or NaN, or Infinity
NaN == -1
Infinity == -2
NoSeek == -1
FallbackDuration == 10
LedgerSnippetApp == 15
LedgerSnippetAnalyze == 10

\* the fractional offsets 0.1, 0.5, 0.9 in tenths
timestamps == <<1, 5, 9>>

IsFinite(d) == d >= 0

\* duration * offset; NaN and Infinity propagate through the product
Times(d, k) == IF IsFinite(d) THEN d * k ELSE d

\* ------------------------------------------------------------ input sets
\* a ledger file: the lines after its header line, whether its text ends
\* with a newline, and whether the FileReader can read it.  A line is the
\* number of a well-formed data row, BlankLine, or BadLine (a row whose
\* fields do not match the header, e.g. after an unterminated quote).
BlankLine == 0
BadLine == -1
LedgerFile(lines, eol) ==
  [chosen |-> TRUE, lines |-> lines, eol |-> eol, readable |-> TRUE]
UnreadableFile ==
  [chosen |-> TRUE, lines |-> << >>, eol |-> FALSE, readable |-> FALSE]
NoLedgerFile ==
  [chosen |-> FALSE, lines |-> << >>, eol |-> FALSE, readable |-> FALSE]

\* the ledgers staged for audits: no row, one row, more rows than any snippet
LedgerFiles ==
  { LedgerFile(<< >>, FALSE), LedgerFile(<<1>>, FALSE),
    LedgerFile([i \in 1..MaxRows |-> i], FALSE) }

\* the ledgers handed to intake: with and without the final newline, with a
\* blank line, with a malformed row
IntakeFiles ==
  { LedgerFile(l, e) : l \in { << >>, <<1>>, <<1, 2>>, <<1, BlankLine, 2>>,
                               <<1, BadLine>>, <<BadLine>> },
                       e \in BOOLEAN }

\* Papa.parse(file, {header: true, skipEmptyLines}): one record per line
\* after the header; the text after a final newline is one more, empty,
\* line; empty lines are dropped only with skipEmptyLines; a malformed row
\* still yields a record (and an entry in results.errors)
PapaParse(f, skipEmptyLines) ==
  LET all == f.lines \o (IF f.eol THEN <<BlankLine>> ELSE << >>)
      NotEmpty(l) == l # BlankLine
  IN IF skipEmptyLines THEN SelectSeq(all, NotEmpty) ELSE all

\* a video file: the duration the element reports for it, and whether it
\* has a picture track (videoWidth and videoHeight above zero)
VideoFiles ==
  { [dur |-> 4, pic |-> TRUE], [dur |-> 0, pic |-> TRUE],
    [dur |-> NaN, pic |-> TRUE], [dur |-> Infinity, pic |-> TRUE],
    [dur |-> 4, pic |-> FALSE] }

UserSeekTargets == {3}

\* the text of a response, as tokens
ResponseTexts ==
  { << >>, <<"OBJ_HIGH">>, <<"OBJ_LOW">>, <<"EMPTYOBJ">>, <<"GARBAGE">>,
    <<"FENCEJSON", "OBJ_HIGH", "FENCE">>, <<"FENCE", "OBJ_LOW", "FENCE">> }

\* ----------------------------------------------------------------- state
VARIABLES
  variant,         \* which front end this session runs
  ctxOk,           \* canvas.getContext('2d') returns a context
  status,          \* useState status
  processingState, \* useState processingState (Process)
  logs,            \* useState logs
  csvData,         \* useState csvData / ledgerData
  videoFile,       \* useState videoFile
  videoUrl,        \* useState videoUrl: number of the object URL, 0 = null
  result,          \* useState result / auditResult
  extractedFrames, \* useState extractedFrames (Process)
  pc,              \* where the audit handler is suspended
  hCsv,            \* the ledger rows the running handler closed over
  hFrames,         \* frames collected so far by extractFrames
  hI,              \* loop index of extractFrames
  hTimePoints,     \* timePoints of extractFrames
  video,           \* the video element being sampled
  run,             \* the extractFramesFromVideo call (Process)
  auditCount,      \* audits started so far
  running,         \* audit handler invocations that have not returned
  requests,        \* requests submitted to the reasoning service
  seekReqs,        \* seek positions the sampler of the current audit set
  failures,        \* audits that ended in the catch block
  alerted,         \* a blocking alert has been shown
  sampled,         \* whether the sampler of the current audit returned, and what
  sampledDur,      \* the duration the element reported when sampling began
  answered,        \* responses and rejections the service has delivered
  uploads,         \* uploads counted against MaxUploads
  ledgerFile,      \* the file last chosen in the ledger input
  hVideoUrl,       \* the object URL staged when the running handler started
  resultData,      \* the fields of the parsed result the renderer and exporter read
  cert,            \* the document downloadCertificate builds
  view             \* what the result panel renders

vars == << variant, ctxOk, status, processingState, logs, csvData, videoFile,
           videoUrl, result, extractedFrames, pc, hCsv, hFrames, hI,
           hTimePoints, video, run, auditCount, running, requests, seekReqs,
           failures, alerted, sampled, sampledDur, answered, uploads,
           ledgerFile, hVideoUrl, resultData, cert, view >>

\* ------------------------------------------------------------- null values
NullCsv == [isNull |-> TRUE, rows |-> << >>]
Csv(rows) == [isNull |-> FALSE, rows |-> rows]
NoFile == [isNull |-> TRUE, dur |-> 0, pic |-> FALSE]
File(f) == [isNull |-> FALSE, dur |-> f.dur, pic |-> f.pic]
NoResult == [isNull |-> TRUE, audit |-> 0, json |-> "EMPTYOBJ"]
NoVideo == [exists |-> FALSE, dur |-> NaN, pic |-> FALSE, pos |-> 0, seek |-> NoSeek]
NotSampled == [done |-> FALSE, frames |-> << >>]
Sampled(frames) == [done |-> TRUE, frames |-> frames]
NoRun == [url |-> "none", step |-> 0, frames |-> << >>, settled |-> "none",
          meta |-> FALSE, errored |-> FALSE, released |-> FALSE, cleanups |-> 0]

\* the element after its src was set to a file
Element(f) == [exists |-> TRUE, dur |-> f.dur, pic |-> f.pic, pos |-> 0, seek |-> NoSeek]

\* ------------------------------------------------------------------- logs
\* a log entry: its text, its type, the text interpolated into it, the
\* number interpolated into it, and the audit count when it was appended
Entry(msg, type, detail) ==
  [msg |-> msg, type |-> type, detail |-> detail, audit |-> auditCount, count |-> 0]
EntryOf(n, msg, type, detail) ==
  [msg |-> msg, type |-> type, detail |-> detail, audit |-> n, count |-> 0]

\* an addLog that puts the newest entry first
addLogNewestFirst(l, e) == << e >> \o l

addLog(l, e) == Append(l, e)


\* --------------------------------------------------------------- helpers
Min(a, b) == IF a < b THEN a ELSE b

\* Array.prototype.slice(0, n)
slice(rows, n) == SubSeq(rows, 1, Min(n, Len(rows)))

\* the seek algorithm clamps the new position (in tenths) to the end of
\* the media, whose duration d is in seconds
Clamp(t, d) == IF IsFinite(d) /\ t > d * 10 THEN d * 10 ELSE t

\* one captured frame: the loop index it was captured for, the playback
\* position shown when it was drawn, and whether its base64 payload is
\* non-empty
Frame(i, pos, b64) == [idx |-> i, pos |-> pos, b64 |-> b64]

Request(n, rows, frames, images) ==
  [audit |-> n, rows |-> rows, frames |-> Len(frames), images |-> images]

\* number of frames analyzeEvidence attaches: those with a base64 payload
RECURSIVE Attached(_)
Attached(fs) ==
  IF fs = << >> THEN 0
  ELSE (IF Head(fs).b64 THEN 1 ELSE 0) + Attached(Tail(fs))

\* ------------------------------------------------- response text handling
IsFence(tok) == tok \in {"FENCEJSON", "FENCE"}
IsJson(tok) == tok \in {"OBJ_HIGH", "OBJ_LOW", "EMPTYOBJ"}

\* text.replace(/```json/g, '').replace(/```/g, '').trim()
RECURSIVE cleanJson(_)
cleanJson(text) ==
  IF text = << >> THEN << >>
  ELSE IF IsFence(Head(text)) THEN cleanJson(Tail(text))
  ELSE <<Head(text)>> \o cleanJson(Tail(text))

\* JSON.parse succeeds on exactly one JSON value
Parses(text) == Len(text) = 1 /\ IsJson(text[1])

\* response.text || "{}"
OrEmptyObject(text) == IF text = << >> THEN <<"EMPTYOBJ">> ELSE text

\* the fields of a parsed object that the handlers read
risk_score(json) ==
  IF json = "OBJ_HIGH" THEN "HIGH" ELSE IF json = "OBJ_LOW" THEN "LOW" ELSE "undefined"
audit_pass(json) == json = "OBJ_LOW"

\* ------------------------------------------------- the result on display
\* one per-item record of a result (stats / findings_data)
Item(name, claimed, actual, st) ==
  [name |-> name, claimed |-> claimed, actual |-> actual, status |-> st]

StatusOf(claimed, actual) == IF claimed # actual THEN "DISCREPANCY" ELSE "MATCH"

\* a per-item list of n records: with p = 1 every item matches, with p = 2
\* items fall short, exceed and match in turn; the status the service
\* wrote either agrees with the quantities or reads MATCH throughout
Stats(n, p, agrees) ==
  [i \in 1..n |->
     Item(i, i % 3, (i * p) % 3,
          IF agrees THEN StatusOf(i % 3, (i * p) % 3) ELSE "MATCH")]

\* lines doc.splitTextToSize makes of the summary
SummaryLines == {1, 3, 40}

NoData == [risk_score |-> "undefined", audit_pass |-> FALSE,
           financial_impact |-> "undefined", stats |-> << >>, summary |-> 0]
Data(risk, pass, stats, lines) ==
  [risk_score |-> risk, audit_pass |-> pass,
   financial_impact |-> IF risk = "LOW" THEN "$0" ELSE "$3,500",
   stats |-> stats, summary |-> lines]

ResultDatas ==
  { Data(risk, pass, Stats(n, p, agrees), lines) :
      risk \in {"HIGH", "High", "Med", "LOW"}, pass \in BOOLEAN,
      n \in 0..MaxStats, p \in {1, 2}, agrees \in BOOLEAN,
      lines \in SummaryLines }

\* ----------------------------------------------------------- the renderer
Red == "#f43f5e"
Green == "#10b981"

\* the fill of the "actual" bar of one item: App.tsx compares the
\* quantities, the handleProcess front end reads the item's status, the
\* handleAnalyze front end gives every bar the same fill
CellFill(v, entry) ==
  IF v = "App" THEN (IF entry.actual < entry.claimed THEN Red ELSE Green)
  ELSE IF v = "Process" THEN (IF entry.status = "DISCREPANCY" THEN Red ELSE Green)
  ELSE Red

\* the risk banner of the handleProcess front end
Banner(d) ==
  IF d.risk_score = "High" THEN "CRITICAL DISCREPANCY" ELSE "AUDIT PASSED"

NoView == [shown |-> FALSE, risk_score |-> "undefined", banner |-> "",
           financial_impact |-> "undefined", bars |-> << >>]

\* the result panel: the risk classification, the banner (handleProcess
\* front end only), the financial impact, and one pair of bars per item
Render(v, d) ==
  [shown |-> TRUE, risk_score |-> d.risk_score,
   banner |-> IF v = "Process" THEN Banner(d) ELSE "",
   financial_impact |-> d.financial_impact,
   bars |-> [i \in 1..Len(d.stats) |->
               [name |-> d.stats[i].name, claimed |-> d.stats[i].claimed,
                actual |-> d.stats[i].actual, fill |-> CellFill(v, d.stats[i])]]]

\* ------------------------------------------------------- the certificate
PageLimit == 270
PageTop == 20
RowHeight == 8

\* a page check that lets one more row through
NeedsPageLate(y) == y > PageLimit + RowHeight

\* if (y > 270)
NeedsPage(y) == y > PageLimit

\* a label that marks a shortfall alone
RowLabelShortfall(item) ==
  IF item.actual < item.claimed THEN "DISCREPANCY" ELSE "MATCH"

\* item.claimed !== item.actual ? "DISCREPANCY" : "MATCH"
RowLabel(item) ==
  IF item.claimed # item.actual THEN "DISCREPANCY" ELSE "MATCH"

\* no document yet; exports counts the documents saved so far
NoCert == [saved |-> FALSE, title |-> "", rows |-> << >>, pages |-> 0, exports |-> 0]

\* the forEach over result.stats: before each row a page is added and y
\* reset when y is past the limit, then the row is written at y and y
\* advances.  A row records the page and y it was written at, and the
\* running y the loop held when it reached the row.
RECURSIVE StatsRows(_, _, _, _, _)
StatsRows(stats, i, y, page, rows) ==
  IF i > Len(stats) THEN [rows |-> rows, pages |-> page]
  ELSE LET brk == NeedsPage(y)
           at == IF brk THEN PageTop ELSE y
           pg == IF brk THEN page + 1 ELSE page
           item == stats[i]
       IN StatsRows(stats, i + 1, at + RowHeight, pg,
                    Append(rows, [name |-> item.name, claimed |-> item.claimed,
                                  actual |-> item.actual,
                                  label |-> RowLabel(item),
                                  page |-> pg, y |-> at, running |-> y]))

\* the document downloadCertificate saves
Certificate(d, k) ==
  LET table == StatsRows(d.stats, 1, 110 + d.summary * 5 + 10, 1, << >>) IN
  [saved |-> TRUE, title |-> "TRUE-LEDGER FORENSIC AUDIT",
   rows |-> table.rows, pages |-> table.pages, exports |-> k]

\* the document handleDownloadCertificate saves: the title alone
Report(k) ==
  [saved |-> TRUE, title |-> "TRUE-LEDGER REPORT", rows |-> << >>, pages |-> 1,
   exports |-> k]

\* --------------------------------------------------------------- initial
InitialStatus(v) ==
  IF v = "App" THEN "IDLE" ELSE IF v = "Process" THEN "Ready" ELSE "READY"

\* no audit was started, nothing was exported or rendered
NoAudit ==
  /\ status = InitialStatus(variant)
  /\ processingState = "IDLE"
  /\ extractedFrames = << >>
  /\ pc = "idle"
  /\ hCsv = << >>
  /\ hVideoUrl = 0
  /\ hFrames = << >>
  /\ hI = 0
  /\ hTimePoints = << >>
  /\ run = NoRun
  /\ auditCount = 0
  /\ running = 0
  /\ requests = << >>
  /\ seekReqs = << >>
  /\ failures = {}
  /\ alerted = FALSE
  /\ sampled = NotSampled
  /\ sampledDur = NaN
  /\ answered = 0
  /\ uploads = 0
  /\ cert = NoCert
  /\ view = NoView

\* no evidence was staged
NoEvidence ==
  /\ logs = << >>
  /\ csvData = IF variant = "Analyze" THEN NullCsv ELSE Csv(<< >>)
  /\ ledgerFile = NoLedgerFile
  /\ videoFile = NoFile
  /\ videoUrl = 0
  /\ video = NoVideo

Init ==
  /\ variant \in Variants
  /\ ctxOk \in BOOLEAN
  /\ NoAudit
  /\ NoEvidence
  /\ result = NoResult
  /\ resultData = NoData

\* a one-row ledger and a playable video were staged, in this order
StagedLedger == LedgerFile(<<1>>, FALSE)
StagedVideo == [dur |-> 4, pic |-> TRUE]

InitStaged ==
  /\ variant \in Variants
  /\ ctxOk \in BOOLEAN
  /\ NoAudit
  /\ logs = IF variant = "App"
              THEN << [EntryOf(0, "Ledger ingested", "text", "") EXCEPT !.count = 1],
                      EntryOf(0, "Video evidence staged", "text", "") >>
            ELSE IF variant = "Process"
              THEN << EntryOf(0, "Ledger uploaded", "success", ""),
                      EntryOf(0, "Video uploaded", "success", "") >>
            ELSE << >>
  /\ csvData = Csv(PapaParse(StagedLedger, variant = "Process"))
  /\ ledgerFile = StagedLedger
  /\ videoFile = File(StagedVideo)
  /\ videoUrl = 1
  /\ video = IF variant = "Process" THEN NoVideo ELSE Element(StagedVideo)
  /\ result = NoResult
  /\ resultData = NoData

\* a session that holds a result, or none, for the panel and the exporter
InitResult ==
  /\ variant \in Variants
  /\ ctxOk = TRUE
  /\ NoAudit
  /\ NoEvidence
  /\ \/ result = NoResult /\ resultData = NoData
     \/ /\ resultData \in ResultDatas
        /\ result = [isNull |-> FALSE, audit |-> 0,
                      json |-> IF variant = "Process"
                               THEN (IF resultData.audit_pass THEN "OBJ_LOW"
                                     ELSE "OBJ_HIGH")
                               ELSE IF resultData.risk_score = "LOW" THEN "OBJ_LOW"
                               ELSE "OBJ_HIGH"]

\* ---------------------------------------------------------------- intake
\* Papa.parse of a readable file and its complete callback, in the three
\* variants; only handleLedgerUpload passes skipEmptyLines, and only
\* handleCsvUpload reports the number of records
Intake(f) ==
  LET rows == PapaParse(f, variant = "Process") IN
  /\ uploads < MaxUploads
  /\ ledgerFile' = f
  /\ csvData' = Csv(rows)
  /\ logs' = IF variant = "App"
               THEN addLog(logs, [Entry("Ledger ingested", "text", "")
                                    EXCEPT !.count = Len(rows)])
             ELSE IF variant = "Process"
               THEN addLog(logs, Entry("Ledger uploaded", "success", ""))
             ELSE logs
  /\ result' = IF variant = "Process" THEN NoResult ELSE result
  /\ uploads' = uploads + 1
  /\ UNCHANGED << variant, ctxOk, hVideoUrl, resultData, cert, view,
                  status, processingState, videoFile, videoUrl,
                  extractedFrames, pc, hCsv, hFrames, hI, hTimePoints, video,
                  run, auditCount, running, requests, seekReqs, failures,
                  alerted, sampled, sampledDur, answered >>

\* the ledger input's change handler on a ledger staged for an audit
handleCsvUpload == \E f \in LedgerFiles : Intake(f)

\* Papa.parse error callback: the FileReader failed (only
\* handleLedgerUpload registers one)
handleLedgerUploadError ==
  /\ variant = "Process"
  /\ uploads < MaxUploads
  /\ ledgerFile' = UnreadableFile
  /\ logs' = addLog(logs, Entry("Error parsing CSV", "error", "parse"))
  /\ uploads' = uploads + 1
  /\ UNCHANGED << variant, ctxOk, hVideoUrl, resultData, cert, view,
                  status, processingState, csvData, videoFile,
                  videoUrl, result, extractedFrames, pc, hCsv, hFrames, hI,
                  hTimePoints, video, run, auditCount, running, requests,
                  seekReqs, failures, alerted, sampled, sampledDur, answered >>

\* the file input's change handler for the video; in App and Analyze the
\* rendered <video src={videoUrl}> is the element the sampler reads, and a
\* new src restarts its load: position 0, no seek pending
handleVideoUpload ==
  /\ uploads < MaxUploads
  /\ \E f \in VideoFiles :
       /\ videoFile' = File(f)
       /\ video' = IF variant = "Process" THEN video ELSE Element(f)
  /\ videoUrl' = videoUrl + 1
  /\ logs' = IF variant = "App"
               THEN addLog(logs, Entry("Video evidence staged", "text", ""))
             ELSE IF variant = "Process"
               THEN addLog(logs, Entry("Video uploaded", "success", ""))
             ELSE logs
  /\ extractedFrames' = IF variant = "Process" THEN << >> ELSE extractedFrames
  /\ result' = IF variant = "Process" THEN NoResult ELSE result
  /\ uploads' = uploads + 1
  /\ UNCHANGED << variant, ctxOk, ledgerFile, hVideoUrl, resultData, cert, view,
                  status, processingState, csvData, pc, hCsv,
                  hFrames, hI, hTimePoints, run, auditCount, running, requests,
                  seekReqs, failures, alerted, sampled, sampledDur, answered >>


\* the object URLs created and not revoked: one per video upload, none of
\* which any handler revokes, and the one of a running
\* extractFramesFromVideo until its cleanup
UnrevokedUrls ==
  { << "upload", i >> : i \in 1..videoUrl }
    \cup (IF run.url = "live" THEN { << "sampler", auditCount >> } ELSE {})

\* --------------------------------------------------------------- trigger
\* a trigger button whose disabled attribute ignores the busy state
TriggerEnabledNoBusy ==
  IF variant = "Process" THEN csvData.rows # << >> /\ ~videoFile.isNull ELSE TRUE

\* the disabled attribute of the three trigger buttons, negated
TriggerEnabled ==
  IF variant = "App" THEN status \in {"IDLE", "COMPLETED", "ERROR"}
  ELSE IF variant = "Process"
    THEN csvData.rows # << >> /\ ~videoFile.isNull /\ processingState # "ANALYZING"
  ELSE status # "ANALYZING"

\* ------------------------------------------------------- src/App.tsx audit
\* a catch block that puts the status back to its initial value
CatchAppReset(n, lg, detail) ==
  /\ status' = "IDLE"
  /\ logs' = addLog(lg, EntryOf(n, "CRITICAL ERROR", "text", detail))
  /\ pc' = "idle"
  /\ failures' = failures \cup {n}

\* the catch block of runForensicAudit
CatchApp(n, lg, detail) ==
  /\ status' = "ERROR"
  /\ logs' = addLog(lg, EntryOf(n, "CRITICAL ERROR", "text", detail))
  /\ pc' = "idle"
  /\ failures' = failures \cup {n}

\* runForensicAudit from the return of extractFrames to the await of
\* generateContent
SubmitApp(n, lg, rows, frames) ==
  /\ status' = "REASONING"
  /\ logs' = addLog(addLog(lg, EntryOf(n, "Visual evidence secured", "text", "")),
                    EntryOf(n, "Payload transmission started", "text", ""))
  /\ requests' = Append(requests, Request(n, slice(rows, LedgerSnippetApp), frames, Len(frames)))
  /\ pc' = "response"

\* video.duration || 10
DurationOrFallback(d) == IF d = NaN \/ d = 0 THEN FallbackDuration ELSE d

TimePoints(d) == [i \in 1..3 |-> Times(d, timestamps[i])]

StartLogsApp(n) ==
  << EntryOf(n, "TRUE-LEDGER AI v2.0 Initialized.", "text", ""),
     EntryOf(n, "Secure environment established.", "text", "") >>

\* a guard that looks at the ledger alone
MissingEvidenceLedgerOnly ==
  IF variant = "Analyze" THEN csvData.isNull ELSE csvData.rows = << >>

\* the guard at the head of the audit handler:
\* !csvData.length || !videoRef.current, and !csvData || !videoFile
MissingEvidence ==
  IF variant = "Analyze" THEN csvData.isNull \/ videoFile.isNull
  ELSE csvData.rows = << >> \/ ~video.exists

\* a click on the trigger button: runForensicAudit up to its first await
runForensicAudit ==
  /\ variant = "App"
  /\ TriggerEnabled
  /\ IF MissingEvidence
     THEN /\ alerted' = TRUE
          /\ UNCHANGED << status, logs, pc, hCsv, hVideoUrl, hFrames, hI, hTimePoints,
                          video, auditCount, running, requests, seekReqs,
                          failures, sampled, sampledDur >>
     ELSE
       LET n == auditCount + 1
           tp == TimePoints(DurationOrFallback(video.dur))
           lg == addLog(StartLogsApp(n), EntryOf(n, "Initiating temporal extraction", "text", ""))
       IN
       /\ auditCount < MaxAudits
       /\ auditCount' = n
       /\ hCsv' = csvData.rows
       /\ hVideoUrl' = videoUrl
       /\ hFrames' = << >>
       /\ sampledDur' = video.dur
       /\ sampled' = IF ctxOk THEN NotSampled ELSE Sampled(<< >>)
       /\ UNCHANGED alerted
       /\ IF ~ctxOk
          THEN \* extractFrames returns []
               /\ SubmitApp(n, StartLogsApp(n), csvData.rows, << >>)
               /\ running' = running + 1
               /\ seekReqs' = << >>
               /\ UNCHANGED << hI, hTimePoints, video, failures >>
          ELSE IF ~IsFinite(tp[1])
          THEN \* video.currentTime = Infinity throws a TypeError
               /\ CatchApp(n, lg, "TypeError")
               /\ seekReqs' = << >>
               /\ UNCHANGED << running, hI, hTimePoints, video, requests >>
          ELSE /\ status' = "EXTRACTING"
               /\ logs' = lg
               /\ video' = [video EXCEPT !.seek = tp[1]]
               /\ seekReqs' = << tp[1] >>
               /\ hI' = 1
               /\ hTimePoints' = tp
               /\ pc' = "seek"
               /\ running' = running + 1
               /\ UNCHANGED << requests, failures >>
  /\ UNCHANGED << variant, ctxOk, ledgerFile, resultData, cert, view,
                  processingState, csvData, videoFile, videoUrl,
                  result, extractedFrames, run, answered, uploads >>


\* --------------------------------------------- part_000 handleAnalyze audit
\* the catch block of handleAnalyze
CatchAnalyze(n, lg, detail) ==
  /\ status' = "READY"
  /\ logs' = addLog(addLog(lg, EntryOf(n, "ERROR", "text", detail)),
                    EntryOf(n, "Using backup protocol due to API error", "text", ""))
  /\ pc' = "idle"
  /\ failures' = failures \cup {n}

\* handleAnalyze from the return of extractFrames to the await of
\* generateContent
SubmitAnalyze(n, lg, rows, frames) ==
  /\ logs' = addLog(addLog(lg, EntryOf(n, "Extracted frames for analysis", "text", "")),
                    EntryOf(n, "Sending payload to Neural Network", "text", ""))
  /\ requests' = Append(requests, Request(n, slice(rows, LedgerSnippetAnalyze), frames, Len(frames)))
  /\ pc' = "response"

StartLogsAnalyze(n) ==
  << EntryOf(n, "Connected to Gemini 3 Pro", "text", ""),
     EntryOf(n, "Processing Video Stream", "text", "") >>

\* a click on the trigger button: handleAnalyze up to its first await.
\* videoRef.current is set whenever videoFile is, so the "Video element not
\* found" throw is not reachable.
handleAnalyze ==
  /\ variant = "Analyze"
  /\ TriggerEnabled
  /\ IF MissingEvidence
     THEN /\ alerted' = TRUE
          /\ UNCHANGED << status, logs, pc, hCsv, hVideoUrl, hFrames, hI, hTimePoints,
                          video, auditCount, running, requests, seekReqs,
                          failures, sampled, sampledDur >>
     ELSE
       LET n == auditCount + 1
           tp == TimePoints(video.dur)
       IN
       /\ auditCount < MaxAudits
       /\ auditCount' = n
       /\ hCsv' = csvData.rows
       /\ hVideoUrl' = videoUrl
       /\ hFrames' = << >>
       /\ sampledDur' = video.dur
       /\ sampled' = IF ctxOk THEN NotSampled ELSE Sampled(<< >>)
       /\ UNCHANGED alerted
       /\ IF ~ctxOk
          THEN \* extractFrames returns []
               /\ status' = "ANALYZING"
               /\ SubmitAnalyze(n, StartLogsAnalyze(n), csvData.rows, << >>)
               /\ running' = running + 1
               /\ seekReqs' = << >>
               /\ UNCHANGED << hI, hTimePoints, video, failures >>
          ELSE IF ~IsFinite(tp[1])
          THEN \* videoElement.currentTime = NaN or Infinity throws a TypeError
               /\ CatchAnalyze(n, StartLogsAnalyze(n), "TypeError")
               /\ seekReqs' = << >>
               /\ UNCHANGED << running, hI, hTimePoints, video, requests >>
          ELSE /\ status' = "ANALYZING"
               /\ logs' = StartLogsAnalyze(n)
               /\ video' = [video EXCEPT !.seek = tp[1]]
               /\ seekReqs' = << tp[1] >>
               /\ hI' = 1
               /\ hTimePoints' = tp
               /\ pc' = "timer"
               /\ running' = running + 1
               /\ UNCHANGED << requests, failures >>
  /\ UNCHANGED << variant, ctxOk, ledgerFile, resultData, cert, view,
                  processingState, csvData, videoFile, videoUrl,
                  result, extractedFrames, run, answered, uploads >>

\* the setTimeout(r, 300) of extractFrames expires: draw whatever the
\* element shows, then set the next position or return the frames
timerExpiry ==
  /\ variant = "Analyze"
  /\ pc = "timer"
  /\ LET frames == Append(hFrames, Frame(hI, video.pos, TRUE)) IN
     /\ hFrames' = frames
     /\ IF hI < 3
        THEN /\ video' = [video EXCEPT !.seek = hTimePoints[hI + 1]]
             /\ seekReqs' = Append(seekReqs, hTimePoints[hI + 1])
             /\ hI' = hI + 1
             /\ UNCHANGED << logs, requests, pc, sampled >>
        ELSE /\ SubmitAnalyze(auditCount, logs, hCsv, frames)
             /\ sampled' = Sampled(frames)
             /\ UNCHANGED << video, seekReqs, hI >>
  /\ UNCHANGED << variant, ctxOk, ledgerFile, hVideoUrl, resultData, cert, view,
                  status, processingState, csvData, videoFile,
                  videoUrl, result, extractedFrames, hCsv, hTimePoints, run,
                  auditCount, running, failures, alerted, sampledDur, answered,
                  uploads >>

\* ------------------------------------ the rendered video element's events
\* a seek of the rendered element completes and 'seeked' fires; in App the
\* listener of extractFrames, when one is registered, draws the frame
seeked ==
  /\ variant \in {"App", "Analyze"}
  /\ video.exists
  /\ video.seek # NoSeek
  /\ LET pos == Clamp(video.seek, video.dur)
         frames == Append(hFrames, Frame(hI, pos, TRUE))
         lg == addLog(logs, Entry("Frame captured", "text", ""))
     IN
     IF variant = "App" /\ pc = "seek"
     THEN /\ hFrames' = frames
          /\ IF hI < 3
             THEN /\ video' = [video EXCEPT !.pos = pos, !.seek = hTimePoints[hI + 1]]
                  /\ seekReqs' = Append(seekReqs, hTimePoints[hI + 1])
                  /\ hI' = hI + 1
                  /\ logs' = lg
                  /\ UNCHANGED << status, requests, pc, sampled >>
             ELSE /\ video' = [video EXCEPT !.pos = pos, !.seek = NoSeek]
                  /\ SubmitApp(auditCount, lg, hCsv, frames)
                  /\ sampled' = Sampled(frames)
                  /\ UNCHANGED << seekReqs, hI >>
     ELSE /\ video' = [video EXCEPT !.pos = pos, !.seek = NoSeek]
          /\ UNCHANGED << status, logs, requests, pc, hFrames, hI, seekReqs,
                          sampled >>
  /\ UNCHANGED << variant, ctxOk, ledgerFile, hVideoUrl, resultData, cert, view,
                  processingState, csvData, videoFile, videoUrl,
                  result, extractedFrames, hCsv, hTimePoints, run, auditCount,
                  running, failures, alerted, sampledDur, answered, uploads >>

\* the user drags the position of the rendered element (controls)
userSeek ==
  /\ variant \in {"App", "Analyze"}
  /\ video.exists
  /\ \E t \in UserSeekTargets : video' = [video EXCEPT !.seek = t]
  /\ UNCHANGED << variant, ctxOk, ledgerFile, hVideoUrl, resultData, cert, view,
                  status, processingState, logs, csvData,
                  videoFile, videoUrl, result, extractedFrames, pc, hCsv,
                  hFrames, hI, hTimePoints, run, auditCount, running, requests,
                  seekReqs, failures, alerted, sampled, sampledDur, answered,
                  uploads >>

\* the rendered element fires 'error' while it seeks (the file cannot be
\* decoded at that position): the seek is abandoned and no 'seeked' follows.
\* extractFrames listens to 'seeked' alone, so no handler runs.
videoError ==
  /\ variant \in {"App", "Analyze"}
  /\ video.exists
  /\ video.seek # NoSeek
  /\ video' = [video EXCEPT !.seek = NoSeek]
  /\ UNCHANGED << variant, ctxOk, ledgerFile, hVideoUrl, resultData, cert, view,
                  status, processingState, logs, csvData,
                  videoFile, videoUrl, result, extractedFrames, pc, hCsv,
                  hFrames, hI, hTimePoints, run, auditCount, running, requests,
                  seekReqs, failures, alerted, sampled, sampledDur, answered,
                  uploads >>


\* --------------------------- videoProcessor.ts extractFramesFromVideo
\* cleanup(): revoke the object URL, remove the video and the canvas
cleanup(r) ==
  [r EXCEPT !.url = "revoked", !.released = TRUE, !.cleanups = @ + 1]

\* seekToNextFrame(): what it does to the call's state and to the element,
\* how it settles the promise, and the seek it issues
seekToNextFrame(r, v) ==
  IF r.step >= Len(timestamps)
  THEN [run |-> cleanup(r), video |-> v, outcome |-> "resolved", issued |-> << >>,
        detail |-> ""]
  ELSE IF IsFinite(v.dur)
  THEN [run |-> r, video |-> [v EXCEPT !.seek = Times(v.dur, timestamps[r.step + 1])],
        outcome |-> "none", issued |-> << Times(v.dur, timestamps[r.step + 1]) >>,
        detail |-> ""]
  ELSE [run |-> cleanup(r), video |-> v, outcome |-> "rejected", issued |-> << >>,
        detail |-> "Could not determine video duration."]

\* captureFrame() up to its call of seekToNextFrame: the canvas takes the
\* video's size, so a video without a picture encodes to "data:,"
captureFrame(r, v) ==
  [r EXCEPT !.frames = Append(@, Frame(r.step + 1, v.pos, v.pic)),
            !.step = @ + 1]

\* an onerror that rejects without calling cleanup()
onerrorHandlerNoCleanup(r, v) ==
  [run |-> [r EXCEPT !.errored = TRUE], video |-> v,
   outcome |-> "rejected", issued |-> << >>,
   detail |-> "Error processing video file."]

\* video.onerror
onerrorHandler(r, v) ==
  [run |-> cleanup([r EXCEPT !.errored = TRUE]), video |-> v,
   outcome |-> "rejected", issued |-> << >>,
   detail |-> "Error processing video file."]

\* ---------------------------------------------- part_000 handleProcess audit
\* the catch block of handleProcess
CatchProcess(n, lg, detail) ==
  /\ logs' = addLog(lg, EntryOf(n, "Analysis failed", "error", detail))
  /\ processingState' = "ERROR"
  /\ status' = "Error"
  /\ pc' = "idle"
  /\ failures' = failures \cup {n}

\* handleProcess from the settling of extractFramesFromVideo on: the catch
\* block when it rejected, otherwise analyzeEvidence up to the await of
\* generateContent
ContinueProcess(n, outcome, frames, detail) ==
  IF outcome = "rejected"
  THEN /\ CatchProcess(n, logs, detail)
       /\ running' = running - 1
       /\ UNCHANGED << extractedFrames, requests, sampled >>
  ELSE IF Len(frames) = 0
  THEN /\ CatchProcess(n, logs, "Failed extraction.")
       /\ running' = running - 1
       /\ sampled' = Sampled(frames)
       /\ UNCHANGED << extractedFrames, requests >>
  ELSE /\ extractedFrames' = frames
       /\ sampled' = Sampled(frames)
       /\ requests' = Append(requests, Request(n, hCsv, frames, Attached(frames)))
       /\ pc' = "response"
       /\ UNCHANGED << logs, processingState, status, failures, running >>

\* a step of the sampler, and of handleProcess when the step settles the
\* promise for the first time
ApplySampler(res) ==
  LET first == res.outcome # "none" /\ res.run.settled = "pending" IN
  /\ run' = [res.run EXCEPT !.settled = IF first THEN res.outcome ELSE @]
  /\ video' = res.video
  /\ seekReqs' = seekReqs \o res.issued
  /\ IF first
     THEN ContinueProcess(auditCount, res.outcome, res.run.frames, res.detail)
     ELSE UNCHANGED << logs, processingState, status, pc, failures, running,
                       extractedFrames, requests, sampled >>
  /\ UNCHANGED << variant, ctxOk, ledgerFile, hVideoUrl, resultData, cert, view,
                  csvData, videoFile, videoUrl, result, hCsv,
                  hFrames, hI, hTimePoints, auditCount, alerted, sampledDur,
                  answered, uploads >>

\* a click on the trigger button: handleProcess up to its first await.  The
\* button is disabled while evidence is missing, so the early return is not
\* reachable from it.  A fresh element has readyState 0, so
\* extractFramesFromVideo always waits for loadedmetadata.
handleProcess ==
  /\ variant = "Process"
  /\ TriggerEnabled
  /\ auditCount < MaxAudits
  /\ LET n == auditCount + 1 IN
     /\ auditCount' = n
     /\ hCsv' = csvData.rows
     /\ hVideoUrl' = videoUrl
     /\ result' = NoResult
     /\ seekReqs' = << >>
     /\ sampledDur' = videoFile.dur
     /\ sampled' = NotSampled
     /\ IF ~ctxOk
        THEN \* reject(new Error('Canvas context not supported ...'))
             /\ run' = [NoRun EXCEPT !.settled = "rejected"]
             /\ CatchProcess(n, logs, "Canvas context not supported")
             /\ UNCHANGED << video, running >>
        ELSE /\ run' = [NoRun EXCEPT !.url = "live", !.settled = "pending"]
             /\ video' = Element(videoFile)
             /\ processingState' = "ANALYZING"
             /\ status' = "Reasoning..."
             /\ pc' = "frames"
             /\ running' = running + 1
             /\ UNCHANGED << logs, failures >>
  /\ UNCHANGED << variant, ctxOk, ledgerFile, resultData, cert, view,
                  csvData, videoFile, videoUrl, extractedFrames,
                  hFrames, hI, hTimePoints, requests, alerted, answered,
                  uploads >>

\* video.onloadedmetadata
onloadedmetadata ==
  /\ variant = "Process"
  /\ run.url # "none"
  /\ ~run.meta
  /\ ~run.errored
  /\ ApplySampler(seekToNextFrame([run EXCEPT !.meta = TRUE], video))

\* video.onseeked
onseeked ==
  /\ variant = "Process"
  /\ run.url # "none"
  /\ video.seek # NoSeek
  /\ LET v == [video EXCEPT !.pos = Clamp(video.seek, video.dur), !.seek = NoSeek]
     IN ApplySampler(seekToNextFrame(captureFrame(run, v), v))

\* video.onerror
onerror ==
  /\ variant = "Process"
  /\ run.url # "none"
  /\ ~run.errored
  /\ ApplySampler(onerrorHandler(run, video))


\* ------------------------------------------------ the reasoning service
\* the catch block of the running handler
Catch(n, detail) ==
  IF variant = "App" THEN CatchApp(n, logs, detail) /\ UNCHANGED processingState
  ELSE IF variant = "Process" THEN CatchProcess(n, logs, detail)
  ELSE CatchAnalyze(n, logs, detail) /\ UNCHANGED processingState

\* a rejection answered by submitting the same request again
responseRejectsRetry ==
  /\ pc = "response"
  /\ requests' = Append(requests, requests[Len(requests)])
  /\ answered' = answered + 1
  /\ UNCHANGED << variant, ctxOk, ledgerFile, hVideoUrl, resultData, cert, view,
                  status, processingState, logs, csvData,
                  videoFile, videoUrl, result, extractedFrames, pc, hCsv,
                  hFrames, hI, hTimePoints, video, run, auditCount, running,
                  seekReqs, failures, alerted, sampled, sampledDur, uploads >>

\* generateContent rejects (network or service error)
responseRejects ==
  /\ pc = "response"
  /\ Catch(auditCount, "request failed")
  /\ running' = running - 1
  /\ answered' = answered + 1
  /\ UNCHANGED << variant, ctxOk, ledgerFile, hVideoUrl, resultData, cert, view,
                  csvData, videoFile, videoUrl, result,
                  extractedFrames, hCsv, hFrames, hI, hTimePoints, video, run,
                  auditCount, requests, seekReqs, alerted, sampled, sampledDur,
                  uploads >>

\* the text the handler hands to JSON.parse: App and handleAnalyze default
\* an empty text to "{}" and strip fences; analyzeEvidence parses the text
\* as it is and throws on an empty one
TextToParse(text) ==
  IF variant = "Process" THEN text ELSE cleanJson(OrEmptyObject(text))

\* what JSON.parse makes of a response text in the running handler: the
\* object that becomes the result, or the SyntaxError that the catch block
\* receives
ParsedResult(text) ==
  LET clean == TextToParse(text) IN
  IF Parses(clean) THEN clean[1] ELSE "SyntaxError"

\* generateContent resolves with a text
responseArrives ==
  /\ pc = "response"
  /\ \E text \in ResponseTexts :
       LET clean == TextToParse(text)
           n == auditCount
           lg == IF variant = "App"
                 THEN addLog(logs, EntryOf(n, "Response received", "text", ""))
                 ELSE logs
       IN
       IF Parses(clean)
       THEN /\ result' = [isNull |-> FALSE, audit |-> n, json |-> clean[1]]
            /\ pc' = "idle"
            /\ UNCHANGED failures
            /\ IF variant = "App"
               THEN /\ status' = "COMPLETED"
                    /\ logs' = addLog(lg, EntryOf(n, "AUDIT COMPLETE", "text", risk_score(clean[1])))
                    /\ UNCHANGED processingState
               ELSE IF variant = "Analyze"
               THEN /\ status' = "COMPLETED"
                    /\ logs' = addLog(lg, EntryOf(n, "Audit Complete. Risks Flagged.", "text", ""))
                    /\ UNCHANGED processingState
               ELSE /\ processingState' = "COMPLETED"
                    /\ status' = IF audit_pass(clean[1]) THEN "Clean" ELSE "Flagged"
                    /\ logs' = IF audit_pass(clean[1])
                               THEN addLog(lg, EntryOf(n, "Audit PASSED.", "success", ""))
                               ELSE addLog(lg, EntryOf(n, "Discrepancies found", "error",
                                                       risk_score(clean[1])))
       ELSE /\ UNCHANGED result
            /\ IF variant = "App" THEN CatchApp(n, lg, "SyntaxError") /\ UNCHANGED processingState
               ELSE IF variant = "Analyze"
                 THEN CatchAnalyze(n, lg, "SyntaxError") /\ UNCHANGED processingState
               ELSE CatchProcess(n, lg, IF text = << >> THEN "No response generated"
                                        ELSE "SyntaxError")
  /\ running' = running - 1
  /\ answered' = answered + 1
  /\ UNCHANGED << variant, ctxOk, ledgerFile, hVideoUrl, resultData, cert, view,
                  csvData, videoFile, videoUrl, extractedFrames,
                  hCsv, hFrames, hI, hTimePoints, video, run, auditCount,
                  requests, seekReqs, alerted, sampled, sampledDur, uploads >>

\* ------------------------------------------------ the panel and the export
\* the result panel renders the result held
render ==
  /\ ~result.isNull
  /\ view' = Render(variant, resultData)
  /\ UNCHANGED << variant, ctxOk, status, processingState, logs, csvData,
                  videoFile, videoUrl, result, extractedFrames, pc, hCsv,
                  hFrames, hI, hTimePoints, video, run, auditCount, running,
                  requests, seekReqs, failures, alerted, sampled, sampledDur,
                  answered, uploads, ledgerFile, hVideoUrl, resultData, cert >>

\* an export without the early return on a missing result
downloadCertificateUnguarded ==
  /\ variant = "App"
  /\ cert.exports < MaxExports
  /\ cert' = Certificate(resultData, cert.exports + 1)
  /\ UNCHANGED << variant, ctxOk, status, processingState, logs, csvData,
                  videoFile, videoUrl, result, extractedFrames, pc, hCsv,
                  hFrames, hI, hTimePoints, video, run, auditCount, running,
                  requests, seekReqs, failures, alerted, sampled, sampledDur,
                  answered, uploads, ledgerFile, hVideoUrl, resultData, view >>

\* a click on EXPORT CERTIFICATE (App.tsx)
downloadCertificate ==
  /\ variant = "App"
  /\ cert.exports < MaxExports
  /\ cert' = IF result.isNull THEN cert ELSE Certificate(resultData, cert.exports + 1)
  /\ UNCHANGED << variant, ctxOk, status, processingState, logs, csvData,
                  videoFile, videoUrl, result, extractedFrames, pc, hCsv,
                  hFrames, hI, hTimePoints, video, run, auditCount, running,
                  requests, seekReqs, failures, alerted, sampled, sampledDur,
                  answered, uploads, ledgerFile, hVideoUrl, resultData, view >>

\* handleDownloadCertificate of the handleProcess front end
handleDownloadCertificate ==
  /\ variant = "Process"
  /\ cert.exports < MaxExports
  /\ cert' = IF result.isNull THEN cert ELSE Report(cert.exports + 1)
  /\ logs' = IF result.isNull THEN logs
             ELSE addLog(logs, Entry("Certificate downloaded.", "success", ""))
  /\ UNCHANGED << variant, ctxOk, status, processingState, csvData,
                  videoFile, videoUrl, result, extractedFrames, pc, hCsv,
                  hFrames, hI, hTimePoints, video, run, auditCount, running,
                  requests, seekReqs, failures, alerted, sampled, sampledDur,
                  answered, uploads, ledgerFile, hVideoUrl, resultData, view >>

\* the ledger input's change handler on any ledger file
handleCsvUploadAny == \E f \in IntakeFiles : Intake(f)

\* ------------------------------------------------------------ specification
Next ==
  \/ handleCsvUpload
  \/ handleLedgerUploadError
  \/ handleVideoUpload
  \/ runForensicAudit
  \/ handleProcess
  \/ handleAnalyze
  \/ timerExpiry
  \/ seeked
  \/ userSeek
  \/ onloadedmetadata
  \/ onseeked
  \/ onerror
  \/ responseRejects
  \/ responseArrives

Spec == Init /\ [][Next]_vars

\* audits over evidence already staged, with further uploads while they
\* run: the handlers, and the events that carry an audit to its response
NextStaged ==
  \/ handleCsvUpload
  \/ handleVideoUpload
  \/ runForensicAudit
  \/ handleProcess
  \/ handleAnalyze
  \/ timerExpiry
  \/ seeked
  \/ onloadedmetadata
  \/ onseeked
  \/ responseArrives

SpecStaged == InitStaged /\ [][NextStaged]_vars

\* ledger intake alone
NextIntake ==
  \/ handleCsvUploadAny
  \/ handleLedgerUploadError

SpecIntake == Init /\ [][NextIntake]_vars

\* the result panel and the certificate export over a held result
NextResult ==
  \/ render
  \/ downloadCertificate
  \/ handleDownloadCertificate

SpecResult == InitResult /\ [][NextResult]_vars

\* the whole front end with the events that are bound to come: a pending
\* seek ends in 'seeked' or in 'error', the temporary element of
\* extractFramesFromVideo loads its metadata or fails, the 300 ms timer
\* expires, and the generateContent promise settles
NextFair ==
  \/ Next
  \/ videoError

Fairness ==
  /\ WF_vars(seeked \/ videoError)
  /\ WF_vars(timerExpiry)
  /\ WF_vars(onloadedmetadata \/ onerror)
  /\ WF_vars(onseeked \/ onerror)
  /\ WF_vars(responseArrives \/ responseRejects)

SpecFair == Init /\ [][NextFair]_vars /\ Fairness

\* every operation that writes the session log, and the events that carry
\* an audit from one of them to the next
NextSession ==
  \/ handleCsvUpload
  \/ handleLedgerUploadError
  \/ handleVideoUpload
  \/ runForensicAudit
  \/ handleProcess
  \/ handleAnalyze
  \/ timerExpiry
  \/ seeked
  \/ onloadedmetadata
  \/ onseeked
  \/ onerror
  \/ responseRejects
  \/ responseArrives
  \/ downloadCertificate
  \/ handleDownloadCertificate

SpecSession == Init /\ [][NextSession]_vars


\* ================================================================= claims
InFlight == pc # "idle"
Outstanding == Len(requests) - answered
ErrorStatuses == {"ERROR", "Error"}
IsErrorEntry(e) == e.type = "error" \/ e.msg \in {"CRITICAL ERROR", "ERROR"}
RequestsOf(n) == {i \in 1..Len(requests) : requests[i].audit = n}

\* the order of the status values within one audit
Rank(s) ==
  IF s \in {"IDLE", "Ready", "READY"} THEN 0
  ELSE IF s = "EXTRACTING" THEN 1
  ELSE IF s \in {"REASONING", "Reasoning...", "ANALYZING"} THEN 2
  ELSE 3

\* C1: while an audit is in flight the trigger is disabled, so at most one
\* handler invocation, one sampling run and one request are outstanding,
\* in all three variants.
C1_AtMostOneAuditInFlight ==
  /\ InFlight => ~TriggerEnabled
  /\ running <= 1
  /\ (running = 1) <=> InFlight
  /\ Outstanding <= 1
  /\ (Outstanding = 1) <=> (pc = "response")

\* a second audit is in flight after the first one ended, trigger disabled
C1_Witness ==
  /\ auditCount = 2
  /\ pc = "response"
  /\ running = 1
  /\ ~TriggerEnabled

\* C2: on a video of finite duration D the sampler sets exactly the seek
\* positions 0.1 D, 0.5 D, 0.9 D in order, and when it returns it returns
\* exactly three frames, the i-th captured for the i-th offset.
C2_ThreeSeeksThreeFrames ==
  /\ (auditCount > 0 /\ IsFinite(sampledDur)) =>
       /\ Len(seekReqs) <= 3
       /\ \A i \in 1..Len(seekReqs) : seekReqs[i] = sampledDur * timestamps[i]
  /\ sampled.done =>
       /\ Len(sampled.frames) = 3
       /\ \A i \in 1..3 : sampled.frames[i].idx = i
       /\ IsFinite(sampledDur) => Len(seekReqs) = 3

\* C3: with a non-finite duration the sampler sets no seek position,
\* produces no frame, does not return, and the audit submits no request.
C3_NonFiniteDurationFails ==
  (auditCount > 0 /\ ~IsFinite(sampledDur)) =>
    /\ seekReqs = << >>
    /\ hFrames = << >>
    /\ run.frames = << >>
    /\ ~sampled.done
    /\ RequestsOf(auditCount) = {}

\* C4: once the promise of extractFramesFromVideo is settled, the object
\* URL it created is revoked and the temporary elements are removed,
\* whichever way it settled.
C4_TempResourcesReleased ==
  (variant = "Process" /\ run.settled \in {"resolved", "rejected"} /\ run.url # "none")
    => (run.url = "revoked" /\ run.released)

\* a video error after the first frame was captured rejected the promise
C4_Witness ==
  /\ run.settled = "rejected"
  /\ run.errored
  /\ Len(run.frames) >= 1
  /\ run.url = "revoked"
  /\ run.released

\* C5: after an audit ended in the catch block the status is the error
\* value and the log holds an error entry of that audit with its message.
C5_FailureSetsErrorState ==
  (pc = "idle" /\ auditCount \in failures) =>
    /\ status \in ErrorStatuses
    /\ \E i \in 1..Len(logs) :
         /\ IsErrorEntry(logs[i])
         /\ logs[i].audit = auditCount
         /\ logs[i].detail # ""

\* C6: the result held for display was produced by the latest audit
\* started; a new audit's start discards an earlier audit's result.
C6_NoStaleResult ==
  ~result.isNull => result.audit = auditCount

\* C7: the step that starts an audit leaves no log entry appended before
\* that start.
C7_LogClearedAtStart ==
  [][auditCount' = auditCount + 1 =>
       \A i \in 1..Len(logs') : logs'[i].audit = auditCount']_vars

\* C8: every submitted request carries at least one ledger row, was built
\* from exactly three captured frames and attaches exactly three images.
C8_RequestNeedsRowsAndThreeFrames ==
  \A i \in 1..Len(requests) :
    /\ requests[i].rows # << >>
    /\ requests[i].frames = 3
    /\ requests[i].images = 3

\* C9: no audit submits more than one request; a failed request or a
\* response that fails to parse is not followed by another request of the
\* same audit.
C9_NoRetry ==
  /\ \A n \in 1..auditCount : Cardinality(RequestsOf(n)) <= 1
  /\ ~InFlight => Outstanding = 0

\* an audit failed after its request was submitted
C9_Witness ==
  /\ pc = "idle"
  /\ auditCount \in failures
  /\ RequestsOf(auditCount) # {}
  /\ answered = Len(requests)

\* C10: one audit runs in a line: a request is submitted only once the
\* sampler has returned, the result is set only in the step that receives
\* and parses the response to the latest request, and within one audit the
\* status of runForensicAudit and of handleProcess never moves back to an
\* earlier phase.
C10_LinearControlFlow ==
  /\ [](RequestsOf(auditCount) # {} => sampled.done)
  /\ [][(result' # result /\ ~result'.isNull) =>
          /\ pc = "response"
          /\ answered' = answered + 1
          /\ result'.audit = requests[Len(requests)].audit]_vars
  /\ [][(auditCount' = auditCount /\ variant \in {"App", "Process"}) =>
          Rank(status') >= Rank(status)]_vars

\* an audit that sampled three frames completed with its own result
C10_Witness ==
  /\ variant = "App"
  /\ status = "COMPLETED"
  /\ ~result.isNull
  /\ result.audit = auditCount
  /\ Len(sampled.frames) = 3
  /\ RequestsOf(auditCount) # {}

\* the parsed object has the fields of the result shape
HasRequiredFields(json) == json \in {"OBJ_HIGH", "OBJ_LOW"}

\* C11: a result is accepted only when the parsed response has the
\* required fields; an empty response, or one that parses but lacks them,
\* leaves no result.
C11_ResultValidated ==
  ~result.isNull => HasRequiredFields(result.json)

LedgerMissing ==
  IF variant = "Analyze" THEN csvData.isNull ELSE csvData.rows = << >>
VideoMissing == videoFile.isNull
Trigger == runForensicAudit \/ handleProcess \/ handleAnalyze

C13_BoundedLedgerPrefix ==
  \A i \in 1..Len(requests) :
    /\ Len(requests[i].rows) <= 15
    /\ requests[i].audit = auditCount =>
         \E N \in 10..15 : requests[i].rows = SubSeq(hCsv, 1, Min(N, Len(hCsv)))

\* C14: the panel shows the risk classification, the financial impact and
\* the per-item rows of the result it was given, and gives the bar of every
\* item whose quantities differ a fill other than that of every item whose
\* quantities are equal.
C14_RendererFaithful ==
  view.shown =>
    /\ view.risk_score = resultData.risk_score
    /\ view.financial_impact = resultData.financial_impact
    /\ Len(view.bars) = Len(resultData.stats)
    /\ \A i \in 1..Len(view.bars) :
         /\ view.bars[i].name = resultData.stats[i].name
         /\ view.bars[i].claimed = resultData.stats[i].claimed
         /\ view.bars[i].actual = resultData.stats[i].actual
    /\ \A i, j \in 1..Len(view.bars) :
         (view.bars[i].claimed # view.bars[i].actual
            /\ view.bars[j].claimed = view.bars[j].actual)
           => view.bars[i].fill # view.bars[j].fill

\* C15: a saved certificate has a title and one findings row per item of
\* the result, in the result's order, with the item's name, claimed and
\* actual quantity.
C15_CertificateHasAllFindings ==
  cert.saved =>
    /\ cert.title # ""
    /\ Len(cert.rows) = Len(resultData.stats)
    /\ \A i \in 1..Len(cert.rows) :
         /\ cert.rows[i].name = resultData.stats[i].name
         /\ cert.rows[i].claimed = resultData.stats[i].claimed
         /\ cert.rows[i].actual = resultData.stats[i].actual

\* C16: in the certificate of downloadCertificate a page is added before a
\* row exactly when the running y is above 270, the row is then written at
\* 20, otherwise at the running y; each row advances y by 8; so every row
\* is written at y <= 270 and a table that fits adds no page.
C16_PaginationOnlyPastBudget ==
  (variant = "App" /\ cert.saved) =>
    LET rows == cert.rows
        PageBefore(i) == IF i = 1 THEN 1 ELSE rows[i - 1].page
    IN
    /\ \A i \in 1..Len(rows) :
         /\ rows[i].y <= 270
         /\ rows[i].running > 270 =>
              (rows[i].page = PageBefore(i) + 1 /\ rows[i].y = 20)
         /\ rows[i].running <= 270 =>
              (rows[i].page = PageBefore(i) /\ rows[i].y = rows[i].running)
         /\ i > 1 => rows[i].running = rows[i - 1].y + 8
    /\ cert.pages = IF rows = << >> THEN 1 ELSE rows[Len(rows)].page
    /\ (\A i \in 1..Len(rows) : rows[i].running <= 270) => cert.pages = 1

\* a table long enough to break the page twice
C16_Witness ==
  /\ variant = "App"
  /\ cert.saved
  /\ cert.pages = 3
  /\ \E i \in 1..Len(cert.rows) : cert.rows[i].y = 20 /\ cert.rows[i].page = 3

Malformed(f) == ~f.readable \/ \E i \in 1..Len(f.lines) : f.lines[i] = BadLine
IsDataRow(l) == l > 0
DataRows(f) == SelectSeq(f.lines, IsDataRow)

\* C17: the intake of a malformed ledger file appends an error entry to
\* the log and leaves the ledger rows held, the status and the result as
\* they were.
C17_MalformedLedgerSurfaced ==
  [][(uploads' = uploads + 1 /\ ledgerFile'.chosen /\ Malformed(ledgerFile')
        /\ videoFile' = videoFile) =>
       /\ Len(logs') = Len(logs) + 1
       /\ IsErrorEntry(logs'[Len(logs')])
       /\ UNCHANGED << csvData, status, processingState, result >>]_vars

\* C18: after the intake of a well-formed ledger file with R data rows the
\* session holds exactly these R rows in file order, and the count App.tsx
\* logs is R.
C18_IntakeStoresEveryRow ==
  (ledgerFile.chosen /\ ~Malformed(ledgerFile)) =>
    /\ csvData.rows = DataRows(ledgerFile)
    /\ variant = "App" => logs[Len(logs)].count = Len(DataRows(ledgerFile))

FramesSoFar == IF variant = "Process" THEN run.frames ELSE hFrames

\* C19: the sampler has at most one seek more than frames, and each frame
\* was drawn with the video at duration * offset of its own index.
C19_SequentialSampling ==
  (auditCount > 0 /\ IsFinite(sampledDur)) =>
    /\ Len(seekReqs) <= Len(FramesSoFar) + 1
    /\ \A i \in 1..Len(FramesSoFar) :
         FramesSoFar[i].pos = sampledDur * timestamps[FramesSoFar[i].idx]

\* C20: when a result is set for display, the ledger and the video staged
\* are the ones the audit that produced it read.
C20_ResultFromStagedEvidence ==
  [][(result' # result /\ ~result'.isNull) =>
       (csvData.rows = hCsv /\ videoUrl = hVideoUrl)]_vars

Settled == run.settled \in {"resolved", "rejected"}

\* C21: within one call of extractFramesFromVideo cleanup runs at most once,
\* and once the promise has settled its outcome stays, no further frame is
\* captured and no further seek is issued.
C21_SettledOnceThenQuiet ==
  /\ [](run.cleanups <= 1)
  /\ [][(Settled /\ auditCount' = auditCount) =>
          /\ run'.settled = run.settled
          /\ run'.frames = run.frames
          /\ seekReqs' = seekReqs]_vars

\* the part of the trigger's disabled attribute that an audit in flight sets
Busy ==
  IF variant = "App" THEN status \notin {"IDLE", "COMPLETED", "ERROR"}
  ELSE IF variant = "Process" THEN processingState = "ANALYZING"
  ELSE status = "ANALYZING"

\* C22: every audit in flight eventually ends, and the trigger is then no
\* longer disabled by it; given that each pending seek ends in seeked or in
\* a video error, timers expire and the service call settles.
C22_AuditsTerminate == InFlight ~> (~InFlight /\ ~Busy)

\* the element the sampler of the current audit seeks has its metadata: the
\* temporary element after loadedmetadata, the rendered element when it
\* reports a duration (NaN is what an element without metadata reports)
MetadataLoaded ==
  IF variant = "Process" THEN run.meta ELSE sampledDur # NaN

\* C23: a sampler that has issued a seek did so on an element whose
\* metadata was loaded.
C23_NoSeekBeforeMetadata ==
  (auditCount > 0 /\ seekReqs # << >>) => MetadataLoaded

\* C24: in the handleProcess front end the status is 'Clean' only while a
\* result with audit_pass true is held and 'Flagged' only while a result
\* with audit_pass false is held; in App.tsx the status is COMPLETED only
\* while a result is held.
C24_StatusAgreesWithResult ==
  /\ variant = "Process" =>
       /\ status = "Clean" => (~result.isNull /\ audit_pass(result.json))
       /\ status = "Flagged" => (~result.isNull /\ ~audit_pass(result.json))
  /\ variant = "App" => (status = "COMPLETED" => ~result.isNull)

\* C25: in the handleProcess front end the banner on display reads
\* 'AUDIT PASSED' only when the result's audit_pass is true, and reads
\* 'CRITICAL DISCREPANCY' whenever audit_pass is false.
C25_BannerAgreesWithOutcome ==
  (variant = "Process" /\ view.shown) =>
    /\ view.banner = "AUDIT PASSED" => resultData.audit_pass
    /\ ~resultData.audit_pass => view.banner = "CRITICAL DISCREPANCY"

IsPrefix(a, b) == Len(a) <= Len(b) /\ SubSeq(b, 1, Len(a)) = a

\* C26: a step that does not start an audit leaves every entry of the
\* session log in place and adds new entries at the end only.
C26_LogAppendOnly ==
  [][auditCount' = auditCount => IsPrefix(logs, logs')]_vars

\* the log holds the uploads, an audit's outcome and, last, an export
C26_Witness ==
  /\ Len(logs) >= 4
  /\ logs[Len(logs)].msg = "Certificate downloaded."
  /\ \E i \in 1..Len(logs) : logs[i].msg = "Audit PASSED."

\* C27: whenever no audit is in flight, at most one object URL that the
\* application created is still unrevoked.
C27_NoObjectUrlLeak ==
  ~InFlight => Cardinality(UnrevokedUrls) <= 1

JsonTexts == {"OBJ_HIGH", "OBJ_LOW", "EMPTYOBJ"}
Fenced(open, j) == << open, j, "FENCE" >>

\* C28: a handler that waits for the response makes the same result of a
\* JSON text wrapped in a code fence, with or without the json tag, as of
\* the same JSON text sent bare.
C28_FenceStripped ==
  pc = "response" =>
    \A j \in JsonTexts : \A open \in {"FENCEJSON", "FENCE"} :
      ParsedResult(Fenced(open, j)) = ParsedResult(<< j >>)

\* C29: in the certificate of downloadCertificate every item of the result
\* has its row, labelled DISCREPANCY exactly when the item's claimed and
\* actual quantities differ and MATCH exactly when they are equal.
C29_RowStatusFromQuantities ==
  (variant = "App" /\ cert.saved) =>
    /\ Len(cert.rows) = Len(resultData.stats)
    /\ \A i \in 1..Len(cert.rows) :
         /\ cert.rows[i].label = "DISCREPANCY"
              <=> resultData.stats[i].claimed # resultData.stats[i].actual
         /\ cert.rows[i].label = "MATCH"
              <=> resultData.stats[i].claimed = resultData.stats[i].actual

\* a saved certificate with a row that exceeds, a row that falls short and
\* a row that matches
C29_Witness ==
  /\ variant = "App"
  /\ cert.saved
  /\ \E i \in 1..Len(cert.rows) :
       cert.rows[i].actual > cert.rows[i].claimed /\ cert.rows[i].label = "DISCREPANCY"
  /\ \E i \in 1..Len(cert.rows) :
       cert.rows[i].actual < cert.rows[i].claimed /\ cert.rows[i].label = "DISCREPANCY"
  /\ \E i \in 1..Len(cert.rows) :
       cert.rows[i].actual = cert.rows[i].claimed /\ cert.rows[i].label = "MATCH"

\* C30: while no result is held no document is produced or saved, and a
\* step that saves a document leaves the result, the status, the staged
\* ledger and video and the requests as they were.
C30_ExportHasNoEffect ==
  /\ [][result.isNull => cert' = cert]_vars
  /\ [][cert' # cert =>
          UNCHANGED << result, status, processingState, csvData, ledgerFile,
                       videoFile, videoUrl, video, requests, pc >>]_vars

\* a certificate was saved after an audit, with the audit's result held
C30_Witness ==
  /\ cert.saved
  /\ cert.exports >= 1
  /\ ~result.isNull
  /\ result.audit = auditCount
  /\ auditCount >= 1

====
